---- MODULE Spec2Model ----
(***************************************************************************)
(* A model of uploader.py: get_authenticated_service, get_channel_info,    *)
(* upload_video and main.  Remote services, the file system and the OAuth  *)
(* flow are the environment: every outcome they can produce is a           *)
(* nondeterministic choice inside the step that calls them.                *)
(***************************************************************************)
EXTENDS Integers, Sequences, FiniteSets, TLC

VARIABLES
    env_set,        \* os.getenv("CLIENT_SECRET_PATH") is non-empty
    token_file,     \* tokens/token.pickle: [kind, cred]
    credentials,    \* local `credentials` of get_authenticated_service
    loaded,         \* the object pickle.load returned in this invocation
    apc,            \* position inside get_authenticated_service
    youtube,        \* the value get_authenticated_service returned: [present, cred]
    log,            \* youtube_uploader_debug.log: the messages written, in order
    files,          \* the paths for which os.path.exists is true
    video_data,     \* the arguments of upload_video as the caller wrote them
    keywords_list,  \* current contents of the caller's keywords list object
    local,          \* locals of upload_video: title, description, keywords
    body,           \* the payload built by upload_video
    video_id,       \* local `video_id` of upload_video ("unset" before line 156)
    upc,            \* position inside upload_video
    uret,           \* the value upload_video returned
    remote,         \* requests issued to videos.insert / thumbnails.set, in order
    calls,          \* invocations of upload_video started so far
    mpc,            \* position inside main
    channel,        \* (channel_id, channel_title) as main received it
    video_ids,      \* lines of video_ids.txt
    video_ids0,     \* history: lines of video_ids.txt when main started
    stdout          \* lines printed by main

authVars == <<env_set, token_file, credentials, loaded, apc, youtube>>
upVars   == <<files, video_data, keywords_list, local, body, video_id, upc,
              uret, remote, calls>>
mainVars == <<mpc, channel, video_ids, video_ids0, stdout>>
vars     == <<authVars, upVars, mainVars, log>>

----------------------------------------------------------------------------
(* Bounds *)

MaxScopes   == 2     \* longest scope list of a stored credential
MaxTitleLen == 102   \* longest title handed to upload_video
MaxCalls    == 2     \* invocations of upload_video on the same arguments
MaxClock    == 1     \* values of datetime.utcnow(), in minutes

----------------------------------------------------------------------------
(* Helpers *)

Min(a, b) == IF a < b THEN a ELSE b

ToSet(s) == {s[i] : i \in 1..Len(s)}

\* s[:n]
Take(s, n) == SubSeq(s, 1, Min(n, Len(s)))

Logged(m) == \E i \in 1..Len(log) : log[i] = m

RECURSIVE SeqsUpTo(_, _)
SeqsUpTo(S, n) ==
    IF n = 0 THEN {<<>>}
    ELSE LET shorter == SeqsUpTo(S, n - 1)
         IN  shorter \cup {Append(s, x) : s \in {t \in shorter : Len(t) = n - 1}, x \in S}

----------------------------------------------------------------------------
(* get_authenticated_service *)

scopes == <<"youtube.upload", "youtube.readonly">>

OtherScope == "youtube.force-ssl"

NoCredential ==
    [present |-> FALSE, valid |-> FALSE, expired |-> FALSE, refresh_token |-> FALSE,
     scopesNone |-> TRUE, scopes |-> <<>>, token |-> "none"]

\* The credential objects a token file can hold.  valid is
\* "token present and not expired", so a valid credential is never expired.
StoredCredentials ==
    {[present |-> TRUE, valid |-> v, expired |-> e, refresh_token |-> r,
      scopesNone |-> n, scopes |-> s, token |-> "stored"] :
        v \in BOOLEAN, e \in BOOLEAN, r \in BOOLEAN, n \in BOOLEAN,
        s \in SeqsUpTo(ToSet(scopes) \cup {OtherScope}, MaxScopes)}

TokenFiles ==
    {[kind |-> "absent", cred |-> NoCredential],
     [kind |-> "corrupt", cred |-> NoCredential]}
    \cup {[kind |-> "cred", cred |-> c] :
            c \in {d \in StoredCredentials :
                     /\ d.valid => ~d.expired
                     /\ d.scopesNone => d.scopes = <<>>}}

NoHandle == [present |-> FALSE, cred |-> NoCredential]

\* set(scopes) != set(credentials.scopes); set(None) raises TypeError
ScopesComparable(c) == ~c.scopesNone
ScopesDiffer(c) == ToSet(scopes) # ToSet(c.scopes)

\* LoadToken with the load error swallowed: the credential is taken as missing
\* and the function goes on to the interactive flow
LoadToken_Reauth ==
    /\ apc = "load"
    /\ \/ /\ token_file.kind = "absent"
          /\ credentials' = NoCredential
          /\ loaded' = NoCredential
          /\ log' = log \o <<"Starting authentication process">>
       \/ /\ token_file.kind = "cred"
          /\ credentials' = token_file.cred
          /\ loaded' = token_file.cred
          /\ log' = log \o <<"Starting authentication process", "Found token file",
                             "Token scopes">>
       \/ /\ token_file.kind = "corrupt"
          /\ credentials' = NoCredential
          /\ loaded' = NoCredential
          /\ log' = log \o <<"Starting authentication process", "Found token file",
                             "Error loading token">>
    /\ apc' = "check"
    /\ UNCHANGED <<env_set, token_file, youtube>>

\* lines 20-36
LoadToken ==
    /\ apc = "load"
    /\ \/ /\ token_file.kind = "absent"
          /\ credentials' = NoCredential
          /\ loaded' = NoCredential
          /\ apc' = "check"
          /\ youtube' = youtube
          /\ log' = log \o <<"Starting authentication process">>
       \/ /\ token_file.kind = "cred"
          /\ credentials' = token_file.cred
          /\ loaded' = token_file.cred
          /\ apc' = "check"
          /\ youtube' = youtube
          /\ log' = log \o <<"Starting authentication process", "Found token file",
                             "Token scopes">>
       \/ /\ token_file.kind = "corrupt"
          /\ credentials' = NoCredential
          /\ loaded' = NoCredential
          /\ apc' = "returned"
          /\ youtube' = NoHandle
          /\ log' = log \o <<"Starting authentication process", "Found token file",
                             "Error loading token">>
    /\ UNCHANGED <<env_set, token_file>>

\* line 38 and line 39
CheckToken ==
    /\ apc = "check"
    /\ IF ~credentials.present \/ ~credentials.valid
       THEN /\ apc' = "stale"
            /\ log' = Append(log, "Token is missing, invalid, or has incorrect scopes")
       ELSE IF ~ScopesComparable(credentials)
       THEN /\ apc' = "raised"
            /\ log' = log
       ELSE IF ScopesDiffer(credentials)
       THEN /\ apc' = "stale"
            /\ log' = Append(log, "Token is missing, invalid, or has incorrect scopes")
       ELSE /\ apc' = "build"
            /\ log' = log
    /\ UNCHANGED <<env_set, token_file, credentials, loaded, youtube>>

\* lines 40-47
RefreshToken ==
    /\ apc = "stale"
    /\ IF credentials.present /\ credentials.expired /\ credentials.refresh_token
       THEN \/ /\ credentials' = [credentials EXCEPT !.valid = TRUE, !.expired = FALSE,
                                                      !.token = "refreshed"]
               /\ log' = log \o <<"Attempting to refresh token",
                                  "Token refreshed successfully">>
            \/ /\ credentials' = NoCredential
               /\ log' = log \o <<"Attempting to refresh token", "Error refreshing token">>
       ELSE /\ credentials' = credentials
            /\ log' = log
    /\ apc' = "flow"
    /\ UNCHANGED <<env_set, token_file, loaded, youtube>>

FlowCredential ==
    [present |-> TRUE, valid |-> TRUE, expired |-> FALSE, refresh_token |-> TRUE,
     scopesNone |-> FALSE, scopes |-> scopes, token |-> "new"]

\* lines 48-61
OAuthFlow ==
    /\ apc = "flow"
    /\ IF ~credentials.present
       THEN \/ \* from_client_secrets_file or run_local_server raises
               /\ credentials' = credentials
               /\ token_file' = token_file
               /\ youtube' = NoHandle
               /\ apc' = "returned"
               /\ log' = log \o <<"Starting OAuth flow", "Error during OAuth flow">>
            \/ \* the flow completes and the token is saved
               /\ env_set
               /\ credentials' = FlowCredential
               /\ token_file' = [kind |-> "cred", cred |-> FlowCredential]
               /\ youtube' = youtube
               /\ apc' = "build"
               /\ log' = log \o <<"Starting OAuth flow",
                                  "OAuth flow completed, saving token">>
            \/ \* the flow completes, open(token_path, "wb") or pickle.dump raises
               /\ env_set
               /\ credentials' = FlowCredential
               /\ \E f \in {token_file, [kind |-> "corrupt", cred |-> NoCredential]} :
                      token_file' = f
               /\ youtube' = NoHandle
               /\ apc' = "returned"
               /\ log' = log \o <<"Starting OAuth flow",
                                  "OAuth flow completed, saving token",
                                  "Error during OAuth flow">>
       ELSE /\ apc' = "build"
            /\ UNCHANGED <<credentials, token_file, youtube, log>>
    /\ UNCHANGED <<env_set, loaded>>

\* lines 63-70
BuildService ==
    /\ apc = "build"
    /\ \/ /\ youtube' = [present |-> TRUE, cred |-> credentials]
          /\ log' = log \o <<"Building YouTube API service",
                             "YouTube API service created successfully">>
       \/ /\ youtube' = NoHandle
          /\ log' = log \o <<"Building YouTube API service",
                             "Error building YouTube API service">>
    /\ apc' = "returned"
    /\ UNCHANGED <<env_set, token_file, credentials, loaded>>

get_authenticated_service ==
    LoadToken \/ CheckToken \/ RefreshToken \/ OAuthFlow \/ BuildService

----------------------------------------------------------------------------
(* upload_video *)

Chars(n, p) == [i \in 1..n |-> <<"a", "b", "c">>[((i + p) % 3) + 1]]

ShortsSuffix == <<" ", "#", "S", "h", "o", "r", "t", "s">>

NoBody ==
    [snippet |-> [title |-> <<>>, description |-> <<>>, tags |-> <<>>, categoryId |-> ""],
     status |-> [privacyStatus |-> ""]]

NoLocal ==
    [title |-> <<>>, description |-> <<>>, keywords |-> [ref |-> "None", fresh |-> <<>>]]

\* the list a name bound to `keywords` currently denotes
ListOf(k) == IF k.ref = "caller" THEN keywords_list ELSE k.fresh

\* `x or default`: x itself when it is a non-empty list, else a new list
OrDefault(k, default) ==
    IF k.ref # "None" /\ ListOf(k) # <<>> THEN k ELSE [ref |-> "fresh", fresh |-> default]

\* lines 170-178
HttpErrorLog(reason) ==
    <<"Error uploading video">>
    \o (IF reason = "youtubeSignupRequired"
        THEN <<"Account does not have a YouTube channel">> ELSE <<>>)
    \o (IF reason = "invalidPublishAt" THEN <<"Invalid publish time">> ELSE <<>>)
    \o (IF reason = "insufficientPermissions"
        THEN <<"Token lacks required scopes">> ELSE <<>>)

HttpReasons == {"youtubeSignupRequired", "invalidPublishAt", "insufficientPermissions",
                "quotaExceeded"}

\* line 100: binding the parameters
EnterUpload ==
    /\ upc' = "check"
    /\ local' = [title |-> video_data.title,
                 description |-> video_data.description,
                 keywords |-> [ref |-> IF video_data.keywords.given THEN "caller"
                                       ELSE "None",
                               fresh |-> <<>>]]
    /\ body' = NoBody
    /\ video_id' = "unset"
    /\ uret' = "pending"
    /\ calls' = calls + 1
    /\ UNCHANGED <<files, video_data, keywords_list, remote>>

\* CheckFiles without the thumbnail test of lines 107-109
CheckFiles_VideoOnly ==
    /\ upc = "check"
    /\ IF video_data.video_path \notin files
       THEN /\ log' = log \o <<"Starting video upload", "Video file not found">>
            /\ upc' = "returned"
            /\ uret' = "None"
       ELSE /\ log' = log \o <<"Starting video upload", "Video file exists",
                               "Thumbnail file exists">>
            /\ upc' = "shape"
            /\ uret' = uret
    /\ UNCHANGED <<files, video_data, keywords_list, local, body, video_id, remote, calls>>

\* lines 101-111
CheckFiles ==
    /\ upc = "check"
    /\ IF video_data.video_path \notin files
       THEN /\ log' = log \o <<"Starting video upload", "Video file not found">>
            /\ upc' = "returned"
            /\ uret' = "None"
       ELSE IF video_data.thumbnail_path # "" /\ video_data.thumbnail_path \notin files
       THEN /\ log' = log \o <<"Starting video upload", "Thumbnail file not found">>
            /\ upc' = "returned"
            /\ uret' = "None"
       ELSE /\ log' = log \o <<"Starting video upload", "Video file exists",
                               "Thumbnail file exists">>
            /\ upc' = "shape"
            /\ uret' = uret
    /\ UNCHANGED <<files, video_data, keywords_list, local, body, video_id, remote, calls>>

\* lines 115-121
ShapedTitle(t) ==
    IF video_data.is_shorts
    THEN IF Len(t) < 95 THEN Take(t, 95) \o ShortsSuffix ELSE Take(t, 95)
    ELSE t

ShapedDescription(d) ==
    IF video_data.is_shorts THEN d \o <<"\n#Shorts #YouTubeShorts">> ELSE d

ShapedKeywords(k) ==
    IF video_data.is_shorts
    THEN OrDefault(k, <<"Shorts", "YouTubeShorts", "video", "test">>)
    ELSE OrDefault(k, <<"video", "youtube", "test">>)

\* lines 115-143
ShapePayload ==
    /\ upc = "shape"
    /\ LET t == ShapedTitle(local.title)
           d == ShapedDescription(local.description)
           k == ShapedKeywords(local.keywords)
           \* keywords.append("Shorts") acts on the list object k denotes
           kl == IF video_data.is_shorts /\ k.ref = "caller"
                 THEN Append(keywords_list, "Shorts") ELSE keywords_list
           k2 == IF video_data.is_shorts /\ k.ref = "fresh"
                 THEN [k EXCEPT !.fresh = Append(k.fresh, "Shorts")] ELSE k
           tags == IF k2.ref = "caller" THEN kl ELSE k2.fresh
           snippet == [title |-> Take(t, 100), description |-> d, tags |-> tags,
                       categoryId |-> "22"]
       IN  /\ local' = [title |-> t, description |-> d, keywords |-> k2]
           /\ keywords_list' = kl
           /\ IF video_data.publish_immediately
              THEN /\ body' = [snippet |-> snippet,
                               status |-> [privacyStatus |-> "public",
                                           selfDeclaredMadeForKids |-> FALSE]]
                   /\ log' = Append(log, "Publishing immediately")
              ELSE /\ \E utcnow \in 0..MaxClock :
                        body' = [snippet |-> snippet,
                                 status |-> [privacyStatus |-> "public",
                                             selfDeclaredMadeForKids |-> FALSE,
                                             publishAt |-> [minute |-> utcnow + 5,
                                                            suffix |-> "Z"]]]
                   /\ log' = Append(log, "Scheduled publish time")
    /\ upc' = "insert"
    /\ UNCHANGED <<files, video_data, video_id, uret, remote, calls>>

Inserts == {i \in 1..Len(remote) : remote[i].op = "videos.insert"}

\* lines 146-157, and the handlers of lines 170-181 for a failure there
InsertVideo ==
    /\ upc = "insert"
    /\ LET request == [op |-> "videos.insert", body |-> body, ok |-> TRUE]
       IN  \/ \* the request succeeds and the response carries an id
              /\ remote' = Append(remote, request)
              /\ video_id' = ToString(Cardinality({i \in Inserts : remote[i].ok}) + 1)
              /\ log' = log \o <<"Uploading video file", "Video upload API response",
                                 "Video uploaded successfully">>
              /\ upc' = "thumbnail"
              /\ uret' = uret
           \/ \* request.execute() raises HttpError
              /\ \E reason \in HttpReasons :
                    log' = log \o <<"Uploading video file">> \o HttpErrorLog(reason)
              /\ remote' = Append(remote, [request EXCEPT !.ok = FALSE])
              /\ video_id' = video_id
              /\ upc' = "returned"
              /\ uret' = "None"
           \/ \* MediaFileUpload raises, or the transport does
              /\ \E issued \in BOOLEAN :
                    remote' = IF issued THEN Append(remote, [request EXCEPT !.ok = FALSE])
                              ELSE remote
              /\ log' = log \o <<"Uploading video file", "Unexpected error during upload">>
              /\ video_id' = video_id
              /\ upc' = "returned"
              /\ uret' = "None"
    /\ UNCHANGED <<files, video_data, keywords_list, local, body, calls>>

\* lines 160-168, and the handlers of lines 170-181 for a failure there
SetThumbnail ==
    /\ upc = "thumbnail"
    /\ LET request == [op |-> "thumbnails.set", videoId |-> video_id, ok |-> TRUE]
       IN  IF video_data.thumbnail_path # ""
           THEN \/ /\ remote' = Append(remote, request)
                   /\ log' = log \o <<"Uploading thumbnail", "Thumbnail set for video">>
                   /\ uret' = video_id
                \/ /\ \E reason \in HttpReasons :
                         log' = log \o <<"Uploading thumbnail">> \o HttpErrorLog(reason)
                   /\ remote' = Append(remote, [request EXCEPT !.ok = FALSE])
                   /\ uret' = "None"
                \/ /\ \E issued \in BOOLEAN :
                         remote' = IF issued
                                   THEN Append(remote, [request EXCEPT !.ok = FALSE])
                                   ELSE remote
                   /\ log' = log \o <<"Uploading thumbnail",
                                      "Unexpected error during upload">>
                   /\ uret' = "None"
           ELSE /\ uret' = video_id
                /\ UNCHANGED <<remote, log>>
    /\ upc' = "returned"
    /\ UNCHANGED <<files, video_data, keywords_list, local, body, video_id, calls>>

upload_video == CheckFiles \/ ShapePayload \/ InsertVideo \/ SetThumbnail

----------------------------------------------------------------------------
(* get_channel_info and main *)

NoChannel == [id |-> "None", title |-> "None"]

\* lines 202-210
MainVideoData ==
    [video_path |-> "source/vid1.mp4",
     thumbnail_path |-> "source/thumbnail1.jpg",
     title |-> <<"M", "y", " ", "A", "w", "e", "s", "o", "m", "e", " ",
                 "S", "h", "o", "r", "t">>,
     description |-> <<"This is a test Short uploaded via YouTube API.\nSubscribe for more!">>,
     publish_immediately |-> TRUE,
     keywords |-> [given |-> TRUE, list |-> <<"youtube", "api", "shorts", "test">>],
     is_shorts |-> TRUE]

\* lines 184-190: the configuration check, then the call of get_authenticated_service
MainConfig ==
    /\ mpc = "start"
    /\ IF ~env_set
       THEN /\ log' = log \o <<"Loading environment variables",
                               "CLIENT_SECRET_PATH not set in .env">>
            /\ mpc' = "done"
            /\ apc' = apc
       ELSE /\ log' = Append(log, "Loading environment variables")
            /\ mpc' = "auth"
            /\ apc' = "load"
    /\ UNCHANGED <<env_set, token_file, credentials, loaded, youtube, upVars,
                   channel, video_ids, video_ids0, stdout>>

\* lines 190-193: get_authenticated_service has returned or raised
MainAuthenticated ==
    /\ mpc = "auth"
    /\ apc \in {"returned", "raised"}
    /\ IF apc = "raised"
       THEN /\ mpc' = "crashed"
            /\ log' = log
       ELSE IF ~youtube.present
       THEN /\ mpc' = "done"
            /\ log' = Append(log, "Failed to authenticate. Check logs for details.")
       ELSE /\ mpc' = "channel"
            /\ log' = log
    /\ UNCHANGED <<authVars, upVars, channel, video_ids, video_ids0, stdout>>

\* lines 72-98
get_channel_info ==
    \/ /\ channel' = [id |-> "UC1", title |-> "My Channel"]
       /\ log' = log \o <<"Fetching channel information", "Channel API response",
                          "Channel info">>
    \/ /\ channel' = NoChannel
       /\ log' = log \o <<"Fetching channel information", "Channel API response",
                          "No channels found for this account">>
    \/ /\ channel' = NoChannel
       /\ \E insufficient \in BOOLEAN :
            log' = log \o <<"Fetching channel information", "Error fetching channel info">>
                       \o (IF insufficient THEN <<"Token lacks required scopes">> ELSE <<>>)
    \/ /\ channel' = NoChannel
       /\ log' = log \o <<"Fetching channel information",
                          "Unexpected error fetching channel info">>

\* lines 196-212: resolve the channel, then the call of upload_video
MainChannel ==
    /\ mpc = "channel"
    /\ \/ /\ get_channel_info
          /\ channel'.id = "None"
          /\ mpc' = "done"
          /\ UNCHANGED upVars
       \/ /\ get_channel_info
          /\ channel'.id # "None"
          /\ mpc' = "upload"
          /\ EnterUpload
    /\ UNCHANGED <<authVars, video_ids, video_ids0, stdout>>

\* MainRecord without the test of line 213: whatever was returned is written
MainRecord_Always ==
    /\ mpc = "upload"
    /\ upc = "returned"
    /\ video_ids' = Append(video_ids, uret)
    /\ log' = Append(log, "Video ID saved")
    /\ stdout' = Append(stdout, "Video uploaded successfully!")
    /\ mpc' = "done"
    /\ UNCHANGED <<authVars, upVars, channel, video_ids0>>

\* lines 213-220
MainRecord ==
    /\ mpc = "upload"
    /\ upc = "returned"
    /\ IF uret # "None"
       THEN /\ video_ids' = Append(video_ids, uret)
            /\ log' = Append(log, "Video ID saved")
            /\ stdout' = Append(stdout, "Video uploaded successfully!")
       ELSE /\ video_ids' = video_ids
            /\ log' = Append(log, "Video upload failed. Check logs for details.")
            /\ stdout' = Append(stdout, "Upload failed.")
    /\ mpc' = "done"
    /\ UNCHANGED <<authVars, upVars, channel, video_ids0>>

----------------------------------------------------------------------------
(* Specifications *)

IdleAuth ==
    /\ credentials = NoCredential
    /\ loaded = NoCredential
    /\ youtube = NoHandle

IdleUpload ==
    /\ local = NoLocal
    /\ body = NoBody
    /\ video_id = "unset"
    /\ upc = "idle"
    /\ uret = "pending"
    /\ remote = <<>>
    /\ calls = 0

IdleMain ==
    /\ channel = NoChannel
    /\ video_ids0 = video_ids
    /\ stdout = <<>>

MainPaths == {MainVideoData.video_path, MainVideoData.thumbnail_path}

\* main, run once from an arbitrary environment
Init ==
    /\ env_set \in BOOLEAN
    /\ token_file \in TokenFiles
    /\ apc = "idle"
    /\ IdleAuth
    /\ log = <<>>
    /\ files \in SUBSET MainPaths
    /\ video_data = MainVideoData
    /\ keywords_list = MainVideoData.keywords.list
    /\ IdleUpload
    /\ mpc = "start"
    /\ video_ids \in {<<>>, <<"0">>}
    /\ IdleMain

Next ==
    \/ MainConfig
    \/ LoadToken /\ UNCHANGED <<upVars, mainVars>>
    \/ CheckToken /\ UNCHANGED <<upVars, mainVars>>
    \/ RefreshToken /\ UNCHANGED <<upVars, mainVars>>
    \/ OAuthFlow /\ UNCHANGED <<upVars, mainVars>>
    \/ BuildService /\ UNCHANGED <<upVars, mainVars>>
    \/ MainAuthenticated
    \/ MainChannel
    \/ CheckFiles /\ UNCHANGED <<authVars, mainVars>>
    \/ ShapePayload /\ UNCHANGED <<authVars, mainVars>>
    \/ InsertVideo /\ UNCHANGED <<authVars, mainVars>>
    \/ SetThumbnail /\ UNCHANGED <<authVars, mainVars>>
    \/ MainRecord

Spec == Init /\ [][Next]_vars

\* get_authenticated_service called on its own
InitAuth ==
    /\ env_set \in BOOLEAN
    /\ token_file \in TokenFiles
    /\ apc = "load"
    /\ IdleAuth
    /\ log = <<>>
    /\ files = {}
    /\ video_data = MainVideoData
    /\ keywords_list = MainVideoData.keywords.list
    /\ IdleUpload
    /\ mpc = "none"
    /\ video_ids = <<>>
    /\ IdleMain

NextAuth ==
    \/ LoadToken /\ UNCHANGED <<upVars, mainVars>>
    \/ CheckToken /\ UNCHANGED <<upVars, mainVars>>
    \/ RefreshToken /\ UNCHANGED <<upVars, mainVars>>
    \/ OAuthFlow /\ UNCHANGED <<upVars, mainVars>>
    \/ BuildService /\ UNCHANGED <<upVars, mainVars>>

SpecAuth == InitAuth /\ [][NextAuth]_vars

\* upload_video called MaxCalls times by a caller that reuses its arguments
TitleLens == {0, 16} \cup (92..MaxTitleLen)

KeywordArgs ==
    {[given |-> FALSE, list |-> <<>>],
     [given |-> TRUE, list |-> <<>>],
     [given |-> TRUE, list |-> <<"youtube", "api", "shorts", "test">>]}

InitUpload ==
    /\ env_set = TRUE
    /\ token_file = [kind |-> "cred", cred |-> FlowCredential]
    /\ apc = "returned"
    /\ credentials = FlowCredential
    /\ loaded = FlowCredential
    /\ youtube = [present |-> TRUE, cred |-> FlowCredential]
    /\ log = <<>>
    /\ files \in SUBSET MainPaths
    /\ video_data \in
         [video_path : {MainVideoData.video_path},
          thumbnail_path : {"", MainVideoData.thumbnail_path},
          title : {Chars(n, 0) : n \in TitleLens},
          description : {<<"text">>},
          publish_immediately : BOOLEAN,
          keywords : KeywordArgs,
          is_shorts : BOOLEAN]
    \* a thumbnail file matters only when its path is passed
    /\ video_data.thumbnail_path = "" => MainVideoData.thumbnail_path \notin files
    /\ keywords_list = video_data.keywords.list
    /\ IdleUpload
    /\ mpc = "none"
    /\ video_ids = <<>>
    /\ IdleMain

CallUpload ==
    /\ upc \in {"idle", "returned"}
    /\ calls < MaxCalls
    /\ EnterUpload
    /\ UNCHANGED <<authVars, mainVars, log>>

NextUpload ==
    \/ CallUpload
    \/ CheckFiles /\ UNCHANGED <<authVars, mainVars>>
    \/ ShapePayload /\ UNCHANGED <<authVars, mainVars>>
    \/ InsertVideo /\ UNCHANGED <<authVars, mainVars>>
    \/ SetThumbnail /\ UNCHANGED <<authVars, mainVars>>

SpecUpload == InitUpload /\ [][NextUpload]_vars

----------------------------------------------------------------------------
(* Properties *)

ScopesEqual(c) == ~c.scopesNone /\ ToSet(c.scopes) = ToSet(scopes)

\* a credential the function has to treat as stale: invalid, or scopes not the required set
Stale(c) == c.present /\ (~c.valid \/ ~ScopesEqual(c))

MissingFile ==
    \/ video_data.video_path \notin files
    \/ video_data.thumbnail_path # "" /\ video_data.thumbnail_path \notin files

\* C1: once videos.insert has succeeded in an invocation (video_id is bound),
\* upload_video returns that identifier, also when thumbnails.set failed.
C1_PartialSuccess ==
    (upc = "returned" /\ video_id # "unset") => uret = video_id

\* C2: with the video file missing, or a thumbnail path given whose file is
\* missing, upload_video returns None and no remote request is ever issued.
C2_NoRemoteCall ==
    MissingFile =>
        /\ remote = <<>>
        /\ upc \in {"idle", "check", "returned"}
        /\ upc = "returned" => uret = "None"

C2_Witness ==
    /\ upc = "returned"
    /\ video_data.video_path \in files
    /\ video_data.thumbnail_path # ""
    /\ video_data.thumbnail_path \notin files
    /\ Logged("Thumbnail file not found")

\* C3: a loaded, valid credential is the one bound to the returned handle iff
\* its scope set equals the required set; with a proper subset or superset it
\* is never the credential of the handle.
C3_ExactScopes ==
    (apc = "returned" /\ youtube.present /\ loaded.present /\ loaded.valid) =>
        (youtube.cred = loaded <=> ScopesEqual(loaded))

\* C4: with is_shorts, a title of 95 or more characters is sent as its first
\* 95 characters; a shorter title T is sent as T + " #Shorts", at most 100 long.
C4_ShortsTitle ==
    (video_data.is_shorts /\ body # NoBody) =>
        LET T == video_data.title
            P == body.snippet.title
        IN  IF Len(T) >= 95
            THEN Len(P) = 95 /\ P = SubSeq(T, 1, 95)
            ELSE P = T \o ShortsSuffix /\ Len(P) <= 100

\* C5: calling upload_video again with the same arguments sends the same tags,
\* and the caller's keywords list is what the caller wrote.
C5_TagsStable ==
    /\ keywords_list = video_data.keywords.list
    /\ \A i, j \in Inserts : remote[i].body.snippet.tags = remote[j].body.snippet.tags

C7_DiskAgrees ==
    (apc = "returned" /\ youtube.present /\ youtube.cred.token \in {"refreshed", "new"}) =>
        token_file = [kind |-> "cred", cred |-> youtube.cred]

\* C8: main runs configuration check, authentication, channel lookup and
\* upload in this order, each only after the earlier ones succeeded; without
\* the environment variable nothing of get_authenticated_service runs and
\* video_ids.txt is untouched; video_ids.txt gains exactly one line, the
\* identifier, iff upload_video returned one.
C8_Stages ==
    /\ ~env_set =>
          /\ apc = "idle"
          /\ ~youtube.present
          /\ ~Logged("Starting authentication process")
          /\ ~Logged("Building YouTube API service")
          /\ video_ids = video_ids0
    /\ apc # "idle" => Logged("Loading environment variables")
    /\ (mpc = "channel" \/ Logged("Fetching channel information")) =>
          apc = "returned" /\ youtube.present
    /\ upc # "idle" => channel.id # "None" /\ Logged("Channel info")
    /\ video_ids =
          IF mpc = "done" /\ upc = "returned" /\ uret # "None"
          THEN Append(video_ids0, uret)
          ELSE video_ids0

C8_Witness ==
    /\ mpc = "done"
    /\ uret # "None"
    /\ uret # "pending"
    /\ video_ids = Append(video_ids0, uret)

\* C9: no exception leaves get_authenticated_service.
C9_NoException == apc # "raised"

\* C10: a loaded credential that is stale or has other scopes ends up in a
\* handle only after a successful refresh or interactive flow; a refresh is
\* attempted when it has a refresh token, the flow runs when there was no
\* successful refresh, and a failed flow yields None.
C10_StaleNeverReady ==
    /\ (apc = "returned" /\ youtube.present /\ Stale(loaded)) =>
          youtube.cred.token \in {"refreshed", "new"}
    /\ (apc \in {"flow", "build", "returned"} /\ Stale(loaded) /\ loaded.refresh_token) =>
          Logged("Attempting to refresh token")
    /\ (apc \in {"build", "returned"} /\ Stale(loaded)
          /\ ~Logged("Token refreshed successfully")) =>
          Logged("Starting OAuth flow")
    /\ Logged("Error during OAuth flow") => (apc = "returned" /\ ~youtube.present)

====
